---- MODULE Spec2Model ----
(***************************************************************************)
(* Recursive proof aggregation (src/src/recursive.rs): the AggregatedProof *)
(* byte codec, prove, get_aggregated_input and verify, as one state        *)
(* machine.  A behaviour is one scenario, chosen in Init:                   *)
(*   "codec"     : P.write into a byte buffer, AggregatedProof::read back   *)
(*   "aggregate" : prove and get_aggregated_input on the same proof list    *)
(*   "verify"    : verify on an AggregatedProof as read can return it       *)
(* The proving system, the VK tree, the curve and the pairing are           *)
(* collaborators: their outcomes are nondeterministic where the code only   *)
(* passes them on (`?`, expect, assert).                                    *)
(***************************************************************************)
EXTENDS Integers, Sequences, FiniteSets, TLC

\* ------------------------------------------------------------------ bounds
\* Field elements of the model are 0..MaxFr.
MaxFr == 1
\* Longest flattened input vector of a serialized bundle.
MaxVec == 2
\* Bytes of one serialized field element.
FrWidth == 2
\* Largest per-proof num_inputs of a base proof.
MaxInputs == 2
\* Distinct base proofs per input count.
MaxTag == 2
\* Longest proof list enumerated exhaustively.
MaxList == 2
\* Limbs of one verification key's witness encoding (values per tree leaf).
WitnessSize == 2
\* Radix of one limb and modulus of the base field, scaled down.
LimbRadix == 4
FieldModulus == 11

\* ------------------------------------------------------- program constants
VK_TREE_DEPTH == 7
\* assert!(num_proofs_to_check < 256)
MaxProofs == 256
\* rns_params.num_limbs_for_in_field_representation for new_for_field(68, 110, 4)
num_limbs_for_in_field_representation == 4

RECURSIVE Pow2(_)
Pow2(n) == IF n = 0 THEN 1 ELSE 2 * Pow2(n - 1)

SeqsUpTo(S, n) == UNION {[1..k -> S] : k \in 0..n}

\* ------------------------------------------------------------- byte codec
\* writer.write_u64::<LittleEndian>(n): 8 bytes, least significant first.
RECURSIVE LEBytes(_, _)
LEBytes(n, k) == IF k = 0 THEN <<>> ELSE <<n % 256>> \o LEBytes(n \div 256, k - 1)

write_u64(n) == LEBytes(n, 8)

RECURSIVE FromLE(_)
FromLE(b) == IF b = <<>> THEN 0 ELSE b[1] + 256 * FromLE(Tail(b))

\* A read is [ok, val, rest]: reader.read_u64 fails on a short buffer.
ReadErr == [ok |-> FALSE, val |-> 0, rest |-> <<>>]

read_u64(buf) ==
    IF Len(buf) < 8 THEN ReadErr
    ELSE [ok |-> TRUE, val |-> FromLE(SubSeq(buf, 1, 8)), rest |-> SubSeq(buf, 9, Len(buf))]

\* write_usize_vec: the length, then every element, each as a u64.
RECURSIVE WriteU64s(_)
WriteU64s(p) == IF p = <<>> THEN <<>> ELSE write_u64(Head(p)) \o WriteU64s(Tail(p))

write_usize_vec(p) == write_u64(Len(p)) \o WriteU64s(p)

\* read_usize_vec: num_elements, then that many u64, any short read an error.
RECURSIVE ReadU64s(_, _, _)
ReadU64s(buf, n, acc) ==
    IF n = 0 THEN [ok |-> TRUE, val |-> acc, rest |-> buf]
    ELSE LET el == read_u64(buf)
         IN IF ~el.ok THEN ReadErr ELSE ReadU64s(el.rest, n - 1, Append(acc, el.val))

read_usize_vec(buf) ==
    LET num_elements == read_u64(buf)
    IN IF ~num_elements.ok THEN ReadErr ELSE ReadU64s(num_elements.rest, num_elements.val, <<>>)

\* write_fr / read_fr of the proving library: a fixed-width big-endian repr.
RECURSIVE BEBytes(_, _)
BEBytes(n, k) == IF k = 0 THEN <<>> ELSE BEBytes(n \div 256, k - 1) \o <<n % 256>>

RECURSIVE FromBE(_)
FromBE(b) == IF b = <<>> THEN 0 ELSE FromBE(SubSeq(b, 1, Len(b) - 1)) * 256 + b[Len(b)]

RECURSIVE WriteFrs(_)
WriteFrs(p) == IF p = <<>> THEN <<>> ELSE BEBytes(Head(p), FrWidth) \o WriteFrs(Tail(p))

write_fr_vec(p) == write_u64(Len(p)) \o WriteFrs(p)

RECURSIVE ReadFrs(_, _, _)
ReadFrs(buf, n, acc) ==
    IF n = 0 THEN [ok |-> TRUE, val |-> acc, rest |-> buf]
    ELSE IF Len(buf) < FrWidth THEN ReadErr
    ELSE ReadFrs(SubSeq(buf, FrWidth + 1, Len(buf)), n - 1,
                 Append(acc, FromBE(SubSeq(buf, 1, FrWidth))))

read_fr_vec(buf) ==
    LET n == read_u64(buf)
    IN IF ~n.ok THEN ReadErr ELSE ReadFrs(n.rest, n.val, <<>>)

\* Proof::write / Proof::read of the proving library: self-describing, here a
\* one-byte length and the proof's bytes.
proof_write(p) == <<Len(p)>> \o p

proof_read(buf) ==
    IF buf = <<>> \/ Len(buf) < 1 + buf[1] THEN ReadErr
    ELSE [ok |-> TRUE, val |-> SubSeq(buf, 2, 1 + buf[1]), rest |-> SubSeq(buf, 2 + buf[1], Len(buf))]

\* Ok(Self { proof, individual_vk_inputs: vk_inputs, ... }) at the end of read.
BuildSelfSwapped(proof, vk_inputs, aggr_limbs, vk_idexs, num_inputs) ==
    [proof |-> proof,
     individual_vk_inputs |-> aggr_limbs,
     individual_num_inputs |-> num_inputs,
     individual_vk_idxs |-> vk_idexs,
     aggr_limbs |-> vk_inputs]

BuildSelf(proof, vk_inputs, aggr_limbs, vk_idexs, num_inputs) ==
    [proof |-> proof,
     individual_vk_inputs |-> vk_inputs,
     individual_num_inputs |-> num_inputs,
     individual_vk_idxs |-> vk_idexs,
     aggr_limbs |-> aggr_limbs]

\* ----------------------------------------------------- serialized bundles
FrSeqs == SeqsUpTo(0..MaxFr, MaxVec)

RecursiveProofBytes == {<<1>>, <<2, 3>>}

CodecLimbs == {<<>>, <<1>>, <<0, 1>>}

CodecIdxs == {<<>>, <<0>>, <<0, 0>>, <<258, 0>>}

CodecCounts == {0, 1, 2, 65537}

CodecProofs ==
    [proof : RecursiveProofBytes,
     individual_vk_inputs : FrSeqs,
     individual_num_inputs : CodecCounts,
     individual_vk_idxs : CodecIdxs,
     aggr_limbs : CodecLimbs]

\* --------------------------------------------------------- curve, limbs
\* utils::witness_to_field: the limbs, least significant first, as one
\* base-field element.
RECURSIVE witness_to_field(_)
witness_to_field(limbs) ==
    IF limbs = <<>> THEN 0
    ELSE (Head(limbs) + LimbRadix * witness_to_field(Tail(limbs))) % FieldModulus

\* G1Affine::from_xy_checked: Ok only for a point of y^2 = x^3 + 3.
OnCurve(x, y) == (y * y) % FieldModulus = (x * x * x + 3) % FieldModulus

CoordLimbs == {<<0, 0, 0, 0>>, <<1, 0, 0, 0>>, <<1, 1, 0, 0>>}

FullLimbs == {gx \o gy \o xx \o xy : gx \in CoordLimbs, gy \in CoordLimbs,
                                      xx \in CoordLimbs, xy \in CoordLimbs}

GoodPoint == <<0, 0, 0, 0>> \o <<1, 1, 0, 0>>

VerifyLimbs ==
    FullLimbs \cup {<<>>, <<1>>, SubSeq(GoodPoint \o GoodPoint, 1, 15),
                    GoodPoint \o GoodPoint \o <<0>>}

VerifyProofs ==
    [proof : {<<1>>},
     individual_vk_inputs : FrSeqs,
     individual_num_inputs : 0..MaxInputs,
     individual_vk_idxs : {<<0>>},
     aggr_limbs : VerifyLimbs]

\* ------------------------------------------------------------ base proofs
\* An OldProof, as the pair <<num_inputs, input_values>>; a proof of the base
\* system carries num_inputs input values.
NumInputsOf(p) == p[1]

InputValuesOf(p) == p[2]

BaseProof(k, tag) == <<k, [j \in 1..k |-> tag * (MaxInputs + 1) + j]>>

BaseProofs == {BaseProof(k, tag) : k \in 0..MaxInputs, tag \in 1..MaxTag}

Capacity == Pow2(VK_TREE_DEPTH)

\* Long lists: a full tree, one proof more, and the first rejected count.
BigCounts == {Capacity, Capacity + 1, MaxProofs}

BigLists ==
    {[i \in 1..n |-> BaseProof(0, 1)] : n \in BigCounts}
    \cup {[i \in 1..n |-> IF i = n THEN BaseProof(1, 1) ELSE BaseProof(0, 1)] : n \in BigCounts}

ProofLists == SeqsUpTo(BaseProofs, MaxList) \cup BigLists

VerificationKeys == {"K"}

\* ------------------------------------------------- aggregation operators
\* vk.into_witness_for_params(&rns_params): the key's limb encoding.
into_witness_for_params(vk) == [j \in 1..WitnessSize |-> <<vk, j>>]

\* create_vks_tree(&[old_vk], depth): the keys padded with the last one to
\* the 2^depth leaves; the commitment binds the key list and the depth.
\* The concatenation ss[lo] \o .. \o ss[hi], by halves (a shallow recursion).
RECURSIVE FlattenRange(_, _, _)
FlattenRange(ss, lo, hi) ==
    IF lo > hi THEN <<>>
    ELSE IF lo = hi THEN ss[lo]
    ELSE LET mid == (lo + hi) \div 2
         IN FlattenRange(ss, lo, mid) \o FlattenRange(ss, mid + 1, hi)

Flatten(ss) == FlattenRange(ss, 1, Len(ss))

create_vks_tree(vks, depth) ==
    LET leaves == [i \in 1..Pow2(depth) |-> IF i <= Len(vks) THEN vks[i] ELSE vks[Len(vks)]]
    IN [commitment |-> <<"root", vks, depth>>,
        leaves |-> leaves,
        all_witness_values |-> Flatten([i \in 1..Pow2(depth) |-> into_witness_for_params(leaves[i])])]

\* The value positions prove asks for, for proof proof_id (0-based).
intra_leaf_indexes_to_query(proof_id, values_per_leaf) ==
    [j \in 1..values_per_leaf |-> proof_id * values_per_leaf + (j - 1)]

\* vks_tree.produce_query(indexes, &all_witness_values): slices the values,
\* so positions past the end abort; the path is named by its leaf.
produce_query(tree, indexes) ==
    IF indexes[Len(indexes)] >= Len(tree.all_witness_values)
    THEN [ok |-> FALSE, values |-> <<>>, path |-> 0]
    ELSE [ok |-> TRUE,
          values |-> [j \in 1..Len(indexes) |-> tree.all_witness_values[indexes[j] + 1]],
          path |-> indexes[1] \div Len(indexes)]

\* make_aggregate(&old_proofs, &vks, ..): the two pairing operands, bound to
\* the proofs and keys they were combined from.
make_aggregate(proofs, vks) ==
    [pair_with_generator |-> <<0, 5>>, pair_with_x |-> <<0, 5>>, proofs |-> proofs, vks |-> vks]

RECURSIVE ToLimbs(_, _)
ToLimbs(v, k) == IF k = 0 THEN <<>> ELSE <<v % LimbRadix>> \o ToLimbs(v \div LimbRadix, k - 1)

\* make_public_input_and_limbed_aggregate(root, ids, proofs, aggregate, ..):
\* the hash binds root, ids, every proof's inputs in order and the aggregate.
make_public_input_and_limbed_aggregate(root, ids, proofs, aggregate) ==
    LET n == num_limbs_for_in_field_representation
    IN [input |-> [root |-> root, ids |-> ids,
                   inputs |-> [i \in 1..Len(proofs) |-> InputValuesOf(proofs[i])],
                   aggregate |-> aggregate],
        limbs |-> ToLimbs(aggregate.pair_with_generator[1], n)
                  \o ToLimbs(aggregate.pair_with_generator[2], n)
                  \o ToLimbs(aggregate.pair_with_x[1], n)
                  \o ToLimbs(aggregate.pair_with_x[2], n)]

\* The public input the recursive circuit exposes: it recomputes the binding
\* from its own witnesses.
CircuitPublicInput(circuit) ==
    make_public_input_and_limbed_aggregate(
        circuit.vk_root, circuit.proof_ids, circuit.proofs,
        make_aggregate(circuit.proofs, circuit.vk_witnesses)).input

\* old_proofs.iter().map(|_| 0usize) in prove, (0..n).map(|_| 0usize) in
\* get_aggregated_input.
ProveVkIdxs(proofs) == [i \in 1..Len(proofs) |-> 0]

GaiProofIdsByPosition(n) == [i \in 1..n |-> i - 1]

GaiProofIds(n) == [i \in 1..n |-> 0]

\* old_proofs.iter().map(|_| old_vk.clone())
VksFor(proofs, vk) == [i \in 1..Len(proofs) |-> vk]

\* ------------------------------------------------------------ code guards
\* assert!(num_proofs_to_check > 0); assert!(num_proofs_to_check < 256); (prove)
ProveCountOkNoUpper(n) == n > 0

ProveCountOk(n) == n > 0 /\ n < MaxProofs

\* the same two assertions of get_aggregated_input
GaiCountOk(n) == n > 0 /\ n < MaxProofs

\* assert_eq!(p.num_inputs, num_inputs, ..) for every p, num_inputs the first's
NumInputsUnchecked(proofs) == TRUE

NumInputsAgree(proofs) == \A i \in 1..Len(proofs) : NumInputsOf(proofs[i]) = NumInputsOf(proofs[1])

GaiNumInputsAgree(proofs) == \A i \in 1..Len(proofs) : NumInputsOf(proofs[i]) = NumInputsOf(proofs[1])

\* for p in &old_proofs { for input_value in p.input_values { push } }
FlattenInputsFirstOnly(proofs) == InputValuesOf(proofs[1])

FlattenInputs(proofs) == Flatten([i \in 1..Len(proofs) |-> InputValuesOf(proofs[i])])

\* assert!(cs.is_satisfied()); assert_eq!(cs.num_inputs, 1);
SanityPassesAnyInputs(satisfied, num_inputs) == satisfied

SanityPasses(satisfied, num_inputs) == satisfied /\ num_inputs = 1

\* if !valid { return Ok(valid); }
ReturnsEarlyNever(valid) == FALSE

ReturnsEarly(valid) == ~valid

\* assert_eq!(num_consume * 4, aggr_limbs_nums.len())
LimbCountOk(limbs) == num_limbs_for_in_field_representation * 4 = Len(limbs)

\* The four coordinates, then from_xy_checked(..).map_err(|_| Unsatisfiable)?
\* for pair_with_generator and then pair_with_x.
Coordinate(limbs, k) ==
    LET num_consume == num_limbs_for_in_field_representation
    IN witness_to_field(SubSeq(limbs, k * num_consume + 1, (k + 1) * num_consume))

DecodePointsUnchecked(limbs) ==
    [ok |-> TRUE,
     pair_with_generator |-> <<Coordinate(limbs, 0), Coordinate(limbs, 1)>>,
     pair_with_x |-> <<Coordinate(limbs, 2), Coordinate(limbs, 3)>>]

DecodePoints(limbs) ==
    LET pg_x == Coordinate(limbs, 0)
        pg_y == Coordinate(limbs, 1)
        px_x == Coordinate(limbs, 2)
        px_y == Coordinate(limbs, 3)
    IN [ok |-> OnCurve(pg_x, pg_y) /\ OnCurve(px_x, px_y),
        pair_with_generator |-> <<pg_x, pg_y>>,
        pair_with_x |-> <<px_x, px_y>>]

\* ------------------------------------------------------------------ state
VARIABLES
    scenario,             \* "codec", "aggregate" or "verify"
    aggregated_proof,     \* codec: the bundle P written; verify: the bundle verified
    cpc, buf, rest, rd, decoded, flog,
    old_proofs, old_vk,
    ppc, individual_vk_inputs, vks_tree_root, proof_id, queries, limbed_aggregate,
    circuit, cs, pret, ptrace,
    gpc, groot, gret, gtrace,
    vpc, core_result, points, pairing_result, vret, vtrace

codecVars == <<cpc, buf, rest, rd, decoded, flog>>
proveVars == <<ppc, individual_vk_inputs, vks_tree_root, proof_id, queries, limbed_aggregate,
               circuit, cs, pret, ptrace>>
gaiVars == <<gpc, groot, gret, gtrace>>
verifyVars == <<vpc, core_result, points, pairing_result, vret, vtrace>>
inputVars == <<scenario, aggregated_proof, old_proofs, old_vk>>
vars == <<inputVars, codecVars, proveVars, gaiVars, verifyVars>>

\* A call's outcome: none yet, Ok(value), Err(value) or a panic.
Ret(kind, value) == [kind |-> kind, value |-> value]
None == Ret("none", <<>>)

EmptyBundle == BuildSelf(<<1>>, <<>>, <<>>, <<>>, 0)
NoLocals == [proof |-> <<>>, vk_inputs |-> <<>>, aggr_limbs |-> <<>>, vk_idexs |-> <<>>]
NoCircuit == [num_proofs_to_check |-> 0]
NoPoints == [ok |-> FALSE]
NoCs == [synthesized |-> FALSE]

Init ==
    /\ scenario \in {"codec", "aggregate", "verify"}
    /\ aggregated_proof \in
         (IF scenario = "codec" THEN CodecProofs
          ELSE IF scenario = "verify" THEN VerifyProofs ELSE {EmptyBundle})
    /\ old_proofs \in (IF scenario = "aggregate" THEN ProofLists ELSE {<<>>})
    /\ old_vk \in VerificationKeys
    /\ cpc = (IF scenario = "codec" THEN "w_proof" ELSE "idle")
    /\ buf = <<>> /\ rest = <<>> /\ rd = NoLocals /\ decoded = None /\ flog = <<>>
    /\ ppc = (IF scenario = "aggregate" THEN "start" ELSE "idle")
    /\ individual_vk_inputs = <<>> /\ vks_tree_root = <<>> /\ proof_id = 0 /\ queries = <<>>
    /\ limbed_aggregate = <<>> /\ circuit = NoCircuit /\ cs = NoCs /\ pret = None /\ ptrace = <<>>
    /\ gpc = (IF scenario = "aggregate" THEN "start" ELSE "idle")
    /\ groot = <<>> /\ gret = None /\ gtrace = <<>>
    /\ vpc = (IF scenario = "verify" THEN "start" ELSE "idle")
    /\ core_result = "none" /\ points = NoPoints /\ pairing_result = "none"
    /\ vret = None /\ vtrace = <<>>

\* --------------------------------------------------- AggregatedProof::write
WriteProof ==
    /\ cpc = "w_proof"
    /\ buf' = buf \o proof_write(aggregated_proof.proof)
    /\ flog' = Append(flog, "proof")
    /\ cpc' = "w_inputs"
    /\ UNCHANGED <<rest, rd, decoded, inputVars, proveVars, gaiVars, verifyVars>>

WriteInputs ==
    /\ cpc = "w_inputs"
    /\ buf' = buf \o write_fr_vec(aggregated_proof.individual_vk_inputs)
    /\ flog' = Append(flog, "individual_vk_inputs")
    /\ cpc' = "w_limbs"
    /\ UNCHANGED <<rest, rd, decoded, inputVars, proveVars, gaiVars, verifyVars>>

WriteLimbs ==
    /\ cpc = "w_limbs"
    /\ buf' = buf \o write_fr_vec(aggregated_proof.aggr_limbs)
    /\ flog' = Append(flog, "aggr_limbs")
    /\ cpc' = "w_idxs"
    /\ UNCHANGED <<rest, rd, decoded, inputVars, proveVars, gaiVars, verifyVars>>

WriteIdxs ==
    /\ cpc = "w_idxs"
    /\ buf' = buf \o write_usize_vec(aggregated_proof.individual_vk_idxs)
    /\ flog' = Append(flog, "individual_vk_idxs")
    /\ cpc' = "w_count"
    /\ UNCHANGED <<rest, rd, decoded, inputVars, proveVars, gaiVars, verifyVars>>

\* The last write; the reader is then handed the bytes written.
WriteCount ==
    /\ cpc = "w_count"
    /\ buf' = buf \o write_u64(aggregated_proof.individual_num_inputs)
    /\ flog' = Append(flog, "individual_num_inputs")
    /\ rest' = buf'
    /\ cpc' = "r_proof"
    /\ UNCHANGED <<rd, decoded, inputVars, proveVars, gaiVars, verifyVars>>

\* ---------------------------------------------------- AggregatedProof::read
\* One `let x = read(&mut reader)?;` of read: on success the local is set
\* and the reader advanced, on failure read returns the error.
ReadStep(r, field, next) ==
    /\ IF r.ok
       THEN /\ rd' = [rd EXCEPT ![field] = r.val]
            /\ rest' = r.rest
            /\ flog' = Append(flog, "read " \o field)
            /\ cpc' = next
            /\ decoded' = decoded
       ELSE /\ decoded' = Ret("err", "io")
            /\ cpc' = "done"
            /\ UNCHANGED <<rd, rest, flog>>
    /\ UNCHANGED <<buf, inputVars, proveVars, gaiVars, verifyVars>>

ReadProof == cpc = "r_proof" /\ ReadStep(proof_read(rest), "proof", "r_inputs")

ReadInputs == cpc = "r_inputs" /\ ReadStep(read_fr_vec(rest), "vk_inputs", "r_limbs")

ReadLimbs == cpc = "r_limbs" /\ ReadStep(read_fr_vec(rest), "aggr_limbs", "r_idxs")

ReadIdxs == cpc = "r_idxs" /\ ReadStep(read_usize_vec(rest), "vk_idexs", "r_count")

ReadCount ==
    /\ cpc = "r_count"
    /\ LET num_inputs == read_u64(rest)
       IN IF num_inputs.ok
          THEN /\ decoded' = Ret("ok", BuildSelf(rd.proof, rd.vk_inputs, rd.aggr_limbs,
                                                 rd.vk_idexs, num_inputs.val))
               /\ rest' = num_inputs.rest
               /\ flog' = Append(flog, "read num_inputs")
          ELSE /\ decoded' = Ret("err", "io")
               /\ UNCHANGED <<rest, flog>>
    /\ cpc' = "done"
    /\ UNCHANGED <<buf, rd, inputVars, proveVars, gaiVars, verifyVars>>

\* -------------------------------------------------------------------- prove
ProveStop(r) ==
    /\ pret' = r
    /\ ppc' = "done"

\* let num_proofs_to_check = old_proofs.len(); and the two assertions on it.
ProveCheckCount ==
    /\ ppc = "start"
    /\ IF ProveCountOk(Len(old_proofs))
       THEN ppc' = "collect" /\ pret' = pret
       ELSE ProveStop(Ret("panic", "num_proofs_to_check"))
    /\ UNCHANGED <<individual_vk_inputs, vks_tree_root, proof_id, queries, limbed_aggregate,
                   circuit, cs, ptrace, inputVars, codecVars, gaiVars, verifyVars>>

\* The loop that flattens the inputs and asserts every proof's num_inputs.
ProveCollect ==
    /\ ppc = "collect"
    /\ IF NumInputsAgree(old_proofs)
       THEN /\ individual_vk_inputs' = FlattenInputs(old_proofs)
            /\ ppc' = "tree"
            /\ pret' = pret
       ELSE /\ ProveStop(Ret("panic", "proofs num_inputs mismatch!"))
            /\ UNCHANGED individual_vk_inputs
    /\ UNCHANGED <<vks_tree_root, proof_id, queries, limbed_aggregate,
                   circuit, cs, ptrace, inputVars, codecVars, gaiVars, verifyVars>>

\* Parameters, vks, individual_vk_idxs, create_vks_tree(&[old_vk], VK_TREE_DEPTH)?
ProveTree ==
    /\ ppc = "tree"
    /\ ptrace' = Append(ptrace, "create_vks_tree")
    /\ \E ok \in BOOLEAN :
         IF ok
         THEN /\ vks_tree_root' = create_vks_tree(<<old_vk>>, VK_TREE_DEPTH).commitment
              /\ ppc' = "query"
              /\ pret' = pret
         ELSE /\ ProveStop(Ret("err", "create_vks_tree"))
              /\ UNCHANGED vks_tree_root
    /\ UNCHANGED <<individual_vk_inputs, proof_id, queries, limbed_aggregate,
                   circuit, cs, inputVars, codecVars, gaiVars, verifyVars>>

\* One turn of `for proof_id in 0..num_proofs_to_check`.
ProveQuery ==
    /\ ppc = "query"
    /\ proof_id < Len(old_proofs)
    /\ LET vks == VksFor(old_proofs, old_vk)
           vk == vks[ProveVkIdxs(old_proofs)[proof_id + 1] + 1]
           leaf_values == into_witness_for_params(vk)
           values_per_leaf == Len(leaf_values)
           q == produce_query(create_vks_tree(<<old_vk>>, VK_TREE_DEPTH),
                              intra_leaf_indexes_to_query(proof_id, values_per_leaf))
       IN IF ~q.ok
          THEN ProveStop(Ret("panic", "produce_query")) /\ UNCHANGED <<proof_id, queries>>
          ELSE IF q.values # leaf_values
          THEN ProveStop(Ret("panic", "q.values")) /\ UNCHANGED <<proof_id, queries>>
          ELSE /\ queries' = Append(queries, q.path)
               /\ proof_id' = proof_id + 1
               /\ UNCHANGED <<ppc, pret>>
    /\ UNCHANGED <<individual_vk_inputs, vks_tree_root, limbed_aggregate,
                   circuit, cs, ptrace, inputVars, codecVars, gaiVars, verifyVars>>

\* make_aggregate(..)?, make_public_input_and_limbed_aggregate, the circuit.
ProveAggregate ==
    /\ ppc = "query"
    /\ proof_id = Len(old_proofs)
    /\ ptrace' = Append(ptrace, "make_aggregate")
    /\ \E ok \in BOOLEAN :
         IF ok
         THEN LET vks == VksFor(old_proofs, old_vk)
                  proof_ids == ProveVkIdxs(old_proofs)
                  aggregate == make_aggregate(old_proofs, vks)
              IN /\ limbed_aggregate' =
                      make_public_input_and_limbed_aggregate(
                          vks_tree_root, proof_ids, old_proofs, aggregate).limbs
                 /\ circuit' = [num_proofs_to_check |-> Len(old_proofs),
                                num_inputs |-> NumInputsOf(old_proofs[1]),
                                vk_tree_depth |-> VK_TREE_DEPTH,
                                vk_root |-> vks_tree_root,
                                vk_witnesses |-> vks,
                                vk_auth_paths |-> queries,
                                proof_ids |-> proof_ids,
                                proofs |-> old_proofs]
                 /\ ppc' = "sanity"
                 /\ pret' = pret
         ELSE /\ ProveStop(Ret("err", "make_aggregate"))
              /\ UNCHANGED <<limbed_aggregate, circuit>>
    /\ UNCHANGED <<individual_vk_inputs, vks_tree_root, proof_id, queries, cs,
                   inputVars, codecVars, gaiVars, verifyVars>>

\* quick_check_if_satisifed: synthesize on a TrivialAssembly, finalize, then
\* the two assertions.
ProveSanity ==
    /\ ppc = "sanity"
    /\ \E synthesized \in BOOLEAN, satisfied \in BOOLEAN, num_inputs \in 1..2 :
         IF ~synthesized
         THEN /\ ptrace' = Append(ptrace, "sanity_synthesize")
              /\ cs' = cs
              /\ ProveStop(Ret("panic", "should synthesize"))
         ELSE /\ ptrace' = ptrace \o <<"sanity_synthesize", "sanity_check">>
              /\ cs' = [synthesized |-> TRUE, satisfied |-> satisfied, num_inputs |-> num_inputs]
              /\ IF SanityPasses(satisfied, num_inputs)
                 THEN ppc' = "setup" /\ pret' = pret
                 ELSE ProveStop(Ret("panic", IF satisfied THEN "cs.num_inputs"
                                             ELSE "cs.is_satisfied"))
    /\ UNCHANGED <<individual_vk_inputs, vks_tree_root, proof_id, queries, limbed_aggregate,
                   circuit, inputVars, codecVars, gaiVars, verifyVars>>

\* create_recursive_circuit_setup(num_proofs_to_check, num_inputs, VK_TREE_DEPTH)?
ProveSetup ==
    /\ ppc = "setup"
    /\ ptrace' = Append(ptrace, "create_recursive_circuit_setup")
    /\ \E ok \in BOOLEAN :
         IF ok THEN ppc' = "proof" /\ pret' = pret
         ELSE ProveStop(Ret("err", "create_recursive_circuit_setup"))
    /\ UNCHANGED <<individual_vk_inputs, vks_tree_root, proof_id, queries, limbed_aggregate,
                   circuit, cs, inputVars, codecVars, gaiVars, verifyVars>>

\* Synthesize on the ProvingAssembly, create_proof(..)?, Ok(AggregatedProof).
ProveCreateProof ==
    /\ ppc = "proof"
    /\ \E out \in {"ok", "must synthesize", "create_proof"} :
         /\ ptrace' = IF out = "must synthesize" THEN Append(ptrace, "synthesize")
                      ELSE ptrace \o <<"synthesize", "create_proof">>
         /\ ProveStop(
              IF out = "must synthesize" THEN Ret("panic", out)
              ELSE IF out = "create_proof" THEN Ret("err", out)
              ELSE Ret("ok", [proof |-> [inputs |-> <<CircuitPublicInput(circuit)>>],
                              individual_vk_inputs |-> individual_vk_inputs,
                              individual_num_inputs |-> NumInputsOf(old_proofs[1]),
                              individual_vk_idxs |-> ProveVkIdxs(old_proofs),
                              aggr_limbs |-> limbed_aggregate]))
    /\ UNCHANGED <<individual_vk_inputs, vks_tree_root, proof_id, queries, limbed_aggregate,
                   circuit, cs, inputVars, codecVars, gaiVars, verifyVars>>

\* ------------------------------------------------------ get_aggregated_input
GaiStop(r) ==
    /\ gret' = r
    /\ gpc' = "done"

\* The two assertions on the count, then the num_inputs loop.
GaiCheck ==
    /\ gpc = "start"
    /\ IF ~GaiCountOk(Len(old_proofs))
       THEN GaiStop(Ret("panic", "num_proofs_to_check"))
       ELSE IF ~GaiNumInputsAgree(old_proofs)
       THEN GaiStop(Ret("panic", "proofs num_inputs mismatch!"))
       ELSE gpc' = "tree" /\ gret' = gret
    /\ UNCHANGED <<groot, gtrace, inputVars, codecVars, proveVars, verifyVars>>

GaiTree ==
    /\ gpc = "tree"
    /\ gtrace' = Append(gtrace, "create_vks_tree")
    /\ \E ok \in BOOLEAN :
         IF ok
         THEN /\ groot' = create_vks_tree(<<old_vk>>, VK_TREE_DEPTH).commitment
              /\ gpc' = "aggregate"
              /\ gret' = gret
         ELSE /\ GaiStop(Ret("err", "create_vks_tree"))
              /\ UNCHANGED groot
    /\ UNCHANGED <<inputVars, codecVars, proveVars, verifyVars>>

GaiAggregate ==
    /\ gpc = "aggregate"
    /\ gtrace' = Append(gtrace, "make_aggregate")
    /\ \E ok \in BOOLEAN :
         IF ok
         THEN LET vks == VksFor(old_proofs, old_vk)
                  proof_ids == GaiProofIds(Len(old_proofs))
                  aggregate == make_aggregate(old_proofs, vks)
              IN GaiStop(Ret("ok", make_public_input_and_limbed_aggregate(
                                       groot, proof_ids, old_proofs, aggregate).input))
         ELSE GaiStop(Ret("err", "make_aggregate"))
    /\ UNCHANGED <<groot, inputVars, codecVars, proveVars, verifyVars>>

\* ------------------------------------------------------------------- verify
VerifyStop(r) ==
    /\ vret' = r
    /\ vpc' = "done"

\* individual_vk_inputs.chunks(individual_num_inputs): a chunk size of 0 panics.
VerifyChunks ==
    /\ vpc = "start"
    /\ IF aggregated_proof.individual_num_inputs = 0
       THEN VerifyStop(Ret("panic", "chunk size must be non-zero"))
       ELSE vpc' = "core" /\ vret' = vret
    /\ UNCHANGED <<core_result, points, pairing_result, vtrace,
                   inputVars, codecVars, proveVars, gaiVars>>

\* let valid = core_verify(&vk, &aggregated_proof.proof, None)?;
\* if !valid { return Ok(valid); }
VerifyCore ==
    /\ vpc = "core"
    /\ vtrace' = Append(vtrace, "core_verify")
    /\ \E out \in {"true", "false", "err"} :
         /\ core_result' = out
         /\ IF out = "err" THEN VerifyStop(Ret("err", "core_verify"))
            ELSE IF ReturnsEarly(out = "true") THEN VerifyStop(Ret("ok", out = "true"))
            ELSE vpc' = "limbs" /\ vret' = vret
    /\ UNCHANGED <<points, pairing_result, inputVars, codecVars, proveVars, gaiVars>>

\* verify_subproof_limbs up to the assertion on the number of limbs.
VerifyLimbCount ==
    /\ vpc = "limbs"
    /\ IF LimbCountOk(aggregated_proof.aggr_limbs)
       THEN vpc' = "decode" /\ vret' = vret
       ELSE VerifyStop(Ret("panic", "num_consume * 4"))
    /\ UNCHANGED <<core_result, points, pairing_result, vtrace,
                   inputVars, codecVars, proveVars, gaiVars>>

\* The four witness_to_field calls and the two from_xy_checked.
VerifyDecode ==
    /\ vpc = "decode"
    /\ vtrace' = Append(vtrace, "decode")
    /\ points' = DecodePoints(aggregated_proof.aggr_limbs)
    /\ IF points'.ok THEN vpc' = "pairing" /\ vret' = vret
       ELSE VerifyStop(Ret("err", "Unsatisfiable"))
    /\ UNCHANGED <<core_result, pairing_result, inputVars, codecVars, proveVars, gaiVars>>

\* final_exponentiation(miller_loop(..)).ok_or(Unsatisfiable)? == Fqk::one()
VerifyPairing ==
    /\ vpc = "pairing"
    /\ vtrace' = Append(vtrace, "pairing")
    /\ \E out \in {"one", "other", "undefined"} :
         /\ pairing_result' = out
         /\ VerifyStop(IF out = "undefined" THEN Ret("err", "Unsatisfiable")
                       ELSE Ret("ok", out = "one"))
    /\ UNCHANGED <<core_result, points, inputVars, codecVars, proveVars, gaiVars>>

\* ------------------------------------------------------------ specification
Next ==
    \/ WriteProof \/ WriteInputs \/ WriteLimbs \/ WriteIdxs \/ WriteCount
    \/ ReadProof \/ ReadInputs \/ ReadLimbs \/ ReadIdxs \/ ReadCount
    \/ ProveCheckCount \/ ProveCollect \/ ProveTree \/ ProveQuery \/ ProveAggregate
    \/ ProveSanity \/ ProveSetup \/ ProveCreateProof
    \/ GaiCheck \/ GaiTree \/ GaiAggregate
    \/ VerifyChunks \/ VerifyCore \/ VerifyLimbCount \/ VerifyDecode \/ VerifyPairing

Spec == Init /\ [][Next]_vars

\* ------------------------------------------------------------------ claims
Valid(r) == r.kind = "ok" /\ r.value = TRUE

\* Position of the first occurrence of event e in trace t, 0 when absent.
FirstAt(t, e) == IF \E i \in 1..Len(t) : t[i] = e
                 THEN CHOOSE i \in 1..Len(t) : t[i] = e /\ \A j \in 1..(i - 1) : t[j] # e
                 ELSE 0

Happened(t, e) == FirstAt(t, e) > 0

\* C1: reading the bytes P.write produced returns a bundle equal to P in all
\* five fields; write emits proof, inputs, aggregate limbs, VK indices, input
\* count in that order and read consumes them in the same order, leaving no
\* byte unread.
C1_RoundTrip ==
    (scenario = "codec" /\ cpc = "done") =>
        /\ decoded.kind = "ok"
        /\ decoded.value.proof = aggregated_proof.proof
        /\ decoded.value.individual_vk_inputs = aggregated_proof.individual_vk_inputs
        /\ decoded.value.aggr_limbs = aggregated_proof.aggr_limbs
        /\ decoded.value.individual_vk_idxs = aggregated_proof.individual_vk_idxs
        /\ decoded.value.individual_num_inputs = aggregated_proof.individual_num_inputs
        /\ rest = <<>>
        /\ flog = <<"proof", "individual_vk_inputs", "aggr_limbs", "individual_vk_idxs",
                    "individual_num_inputs",
                    "read proof", "read vk_inputs", "read aggr_limbs", "read vk_idexs",
                    "read num_inputs">>

C1_Witness ==
    /\ scenario = "codec" /\ cpc = "done" /\ decoded.kind = "ok"
    /\ aggregated_proof.individual_vk_inputs = <<1, 0>>
    /\ aggregated_proof.aggr_limbs = <<0, 1>>
    /\ aggregated_proof.individual_vk_idxs = <<258, 0>>
    /\ aggregated_proof.individual_num_inputs = 65537
    /\ aggregated_proof.proof = <<2, 3>>

C3_OffCurveIsInvalid ==
    (Happened(vtrace, "decode")
     /\ ~(OnCurve(points.pair_with_generator[1], points.pair_with_generator[2])
          /\ OnCurve(points.pair_with_x[1], points.pair_with_x[2])))
        => /\ vpc = "done"
           /\ vret = Ret("err", "Unsatisfiable")
           /\ ~Happened(vtrace, "pairing")
           /\ pairing_result = "none"

C3_Witness ==
    /\ scenario = "verify" /\ vpc = "done"
    /\ Happened(vtrace, "decode")
    /\ OnCurve(points.pair_with_generator[1], points.pair_with_generator[2])
    /\ ~OnCurve(points.pair_with_x[1], points.pair_with_x[2])
    /\ vret.kind = "err"

\* C4: with an empty proof list or 256 or more proofs, prove and
\* get_aggregated_input stop at the assertion on the count: no tree, query,
\* aggregate, circuit, sanity pass, setup or proof is ever made and neither
\* returns a value.
C4_CountPrecondition ==
    (scenario = "aggregate" /\ (Len(old_proofs) = 0 \/ Len(old_proofs) >= 256)) =>
        /\ ptrace = <<>> /\ gtrace = <<>>
        /\ queries = <<>> /\ circuit = NoCircuit /\ cs = NoCs
        /\ individual_vk_inputs = <<>>
        /\ ppc \in {"start", "done"} /\ gpc \in {"start", "done"}
        /\ (ppc = "done" => pret = Ret("panic", "num_proofs_to_check"))
        /\ (gpc = "done" => gret = Ret("panic", "num_proofs_to_check"))
        /\ (ppc = "start" => pret = None) /\ (gpc = "start" => gret = None)

C4_Witness ==
    /\ scenario = "aggregate" /\ Len(old_proofs) = 256
    /\ ppc = "done" /\ gpc = "done"
    /\ pret.kind = "panic" /\ gret.kind = "panic"

\* C5: when some proof's num_inputs differs from the first proof's, prove and
\* get_aggregated_input fail before any circuit work: no VK tree is built, no
\* aggregate computed, no circuit synthesized, no setup or proof made.
C5_MismatchFailsEarly ==
    (scenario = "aggregate"
     /\ \E i \in 1..Len(old_proofs) : old_proofs[i][1] # old_proofs[1][1]) =>
        /\ ptrace = <<>> /\ gtrace = <<>>
        /\ queries = <<>> /\ circuit = NoCircuit /\ cs = NoCs
        /\ ppc \in {"start", "collect", "done"} /\ gpc \in {"start", "done"}
        /\ (ppc = "done" => pret.kind = "panic")
        /\ (gpc = "done" => gret.kind = "panic")

C5_Witness ==
    /\ scenario = "aggregate"
    /\ Len(old_proofs) = 2 /\ old_proofs[2][1] # old_proofs[1][1]
    /\ ppc = "done" /\ pret = Ret("panic", "proofs num_inputs mismatch!")
    /\ gpc = "done" /\ gret = Ret("panic", "proofs num_inputs mismatch!")

\* C6: when prove and get_aggregated_input both return for the same proof
\* list and key, the value of get_aggregated_input is the single public
\* input bound in the recursive proof, and both used the same VK-tree root.
C6_SameAggregatedInput ==
    (pret.kind = "ok" /\ gret.kind = "ok") =>
        /\ Len(pret.value.proof.inputs) = 1
        /\ gret.value = pret.value.proof.inputs[1]
        /\ groot = vks_tree_root
        /\ circuit.proof_ids = [i \in 1..Len(old_proofs) |-> 0]

C6_Witness ==
    /\ pret.kind = "ok" /\ gret.kind = "ok"
    /\ Len(old_proofs) = 2 /\ old_proofs[1] # old_proofs[2]

\* C7: a bundle returned by prove has individual_vk_inputs of length
\* individual_num_inputs times the number of proofs, holding proof i's inputs
\* at positions (i-1)*num_inputs+1 .. i*num_inputs, and one VK index per proof.
C7_FlattenedInputs ==
    pret.kind = "ok" =>
        LET k == pret.value.individual_num_inputs
            n == Len(old_proofs)
        IN /\ Len(pret.value.individual_vk_inputs) = k * n
           /\ \A i \in 1..n : \A j \in 1..k :
                pret.value.individual_vk_inputs[(i - 1) * k + j] = old_proofs[i][2][j]
           /\ Len(pret.value.individual_vk_idxs) = n

C7_Witness ==
    /\ pret.kind = "ok"
    /\ Len(old_proofs) = 2 /\ old_proofs[1] # old_proofs[2]
    /\ pret.value.individual_num_inputs = 2
    /\ Len(pret.value.individual_vk_inputs) = 4

\* C8: in prove the setup is created, and the proof generated, only after the
\* sanity pass synthesized the circuit and found it satisfied with exactly one
\* public input; when the sanity pass finds otherwise prove stops there.
C8_SanityBeforeProving ==
    /\ (Happened(ptrace, "create_recursive_circuit_setup") \/ Happened(ptrace, "synthesize")
        \/ Happened(ptrace, "create_proof") \/ ppc \in {"setup", "proof"} \/ pret.kind = "ok")
          => /\ cs.synthesized /\ cs.satisfied /\ cs.num_inputs = 1
             /\ Happened(ptrace, "sanity_check")
             /\ \A e \in {"create_recursive_circuit_setup", "synthesize", "create_proof"} :
                  Happened(ptrace, e) => FirstAt(ptrace, "sanity_check") < FirstAt(ptrace, e)
    /\ (cs.synthesized /\ ~(cs.satisfied /\ cs.num_inputs = 1))
          => /\ ppc = "done" /\ pret.kind = "panic"
             /\ ptrace[Len(ptrace)] = "sanity_check"

C8_Witness ==
    /\ pret.kind = "ok"
    /\ ptrace = <<"create_vks_tree", "make_aggregate", "sanity_synthesize", "sanity_check",
                  "create_recursive_circuit_setup", "synthesize", "create_proof">>

\* C9: for every accepted proof count and every proof position, the leaf
\* prove queries lies inside the 2^VK_TREE_DEPTH leaves of the tree and its
\* values are the key's limb encoding, so neither the query nor the assertion
\* on its values stops prove.
C9_QueryInsideTree ==
    /\ (ppc = "query" /\ proof_id < Len(old_proofs)) =>
          LET leaf_values == into_witness_for_params(old_vk)
              q == produce_query(create_vks_tree(<<old_vk>>, VK_TREE_DEPTH),
                                 intra_leaf_indexes_to_query(proof_id, Len(leaf_values)))
          IN proof_id < Pow2(VK_TREE_DEPTH) /\ q.ok /\ q.values = leaf_values
    /\ pret # Ret("panic", "produce_query")
    /\ pret # Ret("panic", "q.values")

\* C10: verify always ends by returning true, false or an error value; it
\* never panics.
C10_VerifyNeverPanics ==
    vpc = "done" => vret.kind \in {"ok", "err"}

====
